---- MODULE Spec2Model ----
(***************************************************************************)
(* A model of the bill-of-materials class of src/src/BOM.ts: the two       *)
(* insertion-ordered maps _items and _details, the detail lookups that are *)
(* in flight between the synchronous part of add/set and the resolution of *)
(* the user's query function, buildFromTemplate, the cost and weight roll  *)
(* ups and the promise chain of export.                                    *)
(***************************************************************************)
EXTENDS Integers, Sequences, FiniteSets, Bags, TLC

VARIABLES bom, items, details, pending, builds, exp, refreshing, last

vars == <<bom, items, details, pending, builds, exp, refreshing, last>>

(***************************************************************************)
(* Bounds of the model.                                                    *)
(***************************************************************************)
\* Largest absolute value of a stored quantity.
MaxQty == 2
\* Largest number of detail lookups in flight at once.
MaxPending == 2
\* Largest number of template entries in a JSON template.
MaxTemplateLen == 2

\* Largest number of buildFromTemplate calls reading their template at once.
MaxBuilds == 1

\* The part numbers the caller uses.
PartNumbers == {"foo", "bar"}

(***************************************************************************)
(* JavaScript values, tagged with what typeof answers for them.  A string  *)
(* value stands for a non-numeric string such as "Tuesday".                *)
(***************************************************************************)
Num(n) == [t |-> "number", n |-> n]
Undefined == [t |-> "undefined", n |-> 0]
StrVal == [t |-> "string", n |-> 0]
Bool(b) == [t |-> "boolean", n |-> IF b THEN 1 ELSE 0]
NaN == [t |-> "NaN", n |-> 0]

TypeOf(v) == IF v.t = "NaN" THEN "number" ELSE v.t

\* A part-number argument: a string, or a value that is not a string.
PnStr(s) == [t |-> "string", s |-> s]
PnNotString == [t |-> "object", s |-> ""]

\* The quantities a caller passes to add, set and remove.
QtyNumbers == {-1, 0, 1, 2}
QtyArgs == {Num(n) : n \in QtyNumbers} \cup {Undefined}
\* Spec follows one part number through every interleaving and every quantity;
\* SpecParts follows two part numbers and the arguments of a wrong type, with
\* the quantities 1 and -1.
PnArgs == {PnStr("foo")}
PnArgsParts == {PnStr(s) : s \in PartNumbers} \cup {PnNotString}
QtyArgsParts == {Num(1), Num(-1), Undefined, StrVal}

(***************************************************************************)
(* A JavaScript Map: the sequence of its entries in insertion order.       *)
(***************************************************************************)
MapKeys(m) == {m[i].k : i \in DOMAIN m}
MapHas(m, k) == k \in MapKeys(m)
MapIndex(m, k) == CHOOSE i \in DOMAIN m : m[i].k = k
MapGet(m, k) == m[MapIndex(m, k)].v
MapSet(m, k, v) ==
  IF MapHas(m, k)
    THEN [m EXCEPT ![MapIndex(m, k)] = [k |-> k, v |-> v]]
    ELSE Append(m, [k |-> k, v |-> v])
MapDelete(m, k) == SelectSeq(m, LAMBDA e : e.k # k)

(***************************************************************************)
(* The user's query function, as the catalogue the tests use: "foo" has a  *)
(* unit cost of 10 and a unit weight of 20; "bar" is a record of a sloppy  *)
(* data source, with its own partNumber and quantity fields, a unit cost   *)
(* that is not a number and no unit weight.                                *)
(***************************************************************************)
QueryResult(pn) ==
  IF pn = "foo"
    THEN [partNumber |-> "", quantity |-> 0,
          unitCost |-> Num(10), unitWeight |-> Num(20)]
    ELSE [partNumber |-> "other", quantity |-> 7,
          unitCost |-> StrVal, unitWeight |-> Undefined]

\* MergeDetails with the spread last: {partNumber, quantity, ...details}, in
\* which the fields of the fetched record win.
MergeDetailsSpreadLast(d, pn, q) == d

\* {...details, partNumber, quantity}
MergeDetails(d, pn, q) == [d EXCEPT !.partNumber = pn, !.quantity = q]

\* A lookup in flight: the promise the query function returned to add or set
\* for partNumber, with the quantity its continuation will merge in.  The
\* promise of add or set that waits for it is awaited by the caller, or was
\* dropped by buildFromTemplate.
Lookup(pn, q, via) == [partNumber |-> pn, quantity |-> q, via |-> via]

\* The export that is running, if any: where its promise chain stands, the
\* records getDetails() gave it, and the promise the chain has reached, whose
\* error is the list of messages from the error thrown last down its causes.
NoExport ==
  [pc |-> "idle", data |-> <<>>, rows |-> <<>>, state |-> "fulfilled", error |-> <<>>]

\* The refresh() that is running, if any: the promises it pushed, one for each
\* entry of _items at the call, each pending or fulfilled.
NoRefresh == [active |-> FALSE, batch |-> <<>>]

NoCall == [op |-> "none", pn |-> "", qty |-> Undefined, result |-> "ok"]
Call(op, pn, qty, result) == [op |-> op, pn |-> pn, qty |-> qty, result |-> result]

Init ==
  /\ bom = "none"
  /\ items = <<>>
  /\ details = <<>>
  /\ pending = EmptyBag
  /\ builds = 0
  /\ exp = NoExport
  /\ refreshing = NoRefresh
  /\ last = NoCall

(***************************************************************************)
(* new BOM(queryFunction, metadata)                                        *)
(***************************************************************************)
\* Construct with "if (!queryFunction)" in place of the typeof test.
ConstructIfDefined(fnType) ==
  /\ bom = "none"
  /\ bom' = IF fnType # "undefined" THEN "ready" ELSE "failed"
  /\ last' = Call("new", "", [t |-> fnType, n |-> 0],
                IF fnType # "undefined" THEN "ok" ELSE "Error")
  /\ UNCHANGED <<refreshing, items, details, pending, builds, exp>>

Construct(fnType) ==
  /\ bom = "none"
  /\ bom' = IF fnType = "function" THEN "ready" ELSE "failed"
  /\ last' = Call("new", "", [t |-> fnType, n |-> 0],
                IF fnType = "function" THEN "ok" ELSE "Error")
  /\ UNCHANGED <<refreshing, items, details, pending, builds, exp>>

\* sanitizeInputs with the two tests in the other order.
sanitizeInputsQuantityFirst(partNumber, quantity) ==
  IF TypeOf(quantity) # "number" THEN "quantityError"
  ELSE IF partNumber.t # "string" THEN "partNumberError"
  ELSE "ok"

\* sanitizeInputs(partNumber, quantity): the error it throws, or "ok".
sanitizeInputs(partNumber, quantity) ==
  IF partNumber.t # "string" THEN "partNumberError"
  ELSE IF TypeOf(quantity) # "number" THEN "quantityError"
  ELSE "ok"

(***************************************************************************)
(* The synchronous part of add(partNumber, quantity = 1), on the maps its  *)
(* and the lookups in flight pend: the new maps, and the outcome so far.   *)
(***************************************************************************)
\* AddSync that stores the quantity before it validates its arguments.
AddSyncValidatesLast(its, pend, partNumber, qtyArg, via) ==
  LET quantity == IF qtyArg.t = "undefined" THEN Num(1) ELSE qtyArg
      err == sanitizeInputs(partNumber, quantity)
      pn == partNumber.s
  IN  IF MapHas(its, pn)
        THEN [items |-> MapSet(its, pn, MapGet(its, pn) + quantity.n),
              pending |-> pend, result |-> err]
        ELSE [items |-> MapSet(its, pn, quantity.n),
              pending |-> IF err = "ok"
                            THEN pend (+) SetToBag({Lookup(pn, quantity.n, via)})
                            ELSE pend,
              result |-> IF err = "ok" THEN "pending" ELSE err]

\* AddSync that never asks the query function.
AddSyncNeverLooksUp(its, pend, partNumber, qtyArg, via) ==
  LET quantity == IF qtyArg.t = "undefined" THEN Num(1) ELSE qtyArg
      err == sanitizeInputs(partNumber, quantity)
      pn == partNumber.s
  IN  IF err # "ok" THEN [items |-> its, pending |-> pend, result |-> err]
      ELSE [items |-> MapSet(its, pn, (IF MapHas(its, pn) THEN MapGet(its, pn) ELSE 0) + quantity.n),
            pending |-> pend, result |-> "ok"]

\* AddSync that deletes the part when the quantity to store is not positive.
AddSyncDropsNonPositive(its, pend, partNumber, qtyArg, via) ==
  LET quantity == IF qtyArg.t = "undefined" THEN Num(1) ELSE qtyArg
      err == sanitizeInputs(partNumber, quantity)
      pn == partNumber.s
      sum == (IF MapHas(its, pn) THEN MapGet(its, pn) ELSE 0) + quantity.n
  IN  IF err # "ok" THEN [items |-> its, pending |-> pend, result |-> err]
      ELSE IF sum <= 0
        THEN [items |-> MapDelete(its, pn), pending |-> pend, result |-> "ok"]
      ELSE IF MapHas(its, pn)
        THEN [items |-> MapSet(its, pn, sum), pending |-> pend, result |-> "ok"]
        ELSE [items |-> MapSet(its, pn, sum),
              pending |-> pend (+) SetToBag({Lookup(pn, quantity.n, via)}),
              result |-> "pending"]

\* AddSync that starts a lookup on every call, tracked part or not.
AddSyncAlwaysLooksUp(its, pend, partNumber, qtyArg, via) ==
  LET quantity == IF qtyArg.t = "undefined" THEN Num(1) ELSE qtyArg
      err == sanitizeInputs(partNumber, quantity)
      pn == partNumber.s
  IN  IF err # "ok" THEN [items |-> its, pending |-> pend, result |-> err]
      ELSE [items |-> MapSet(its, pn, (IF MapHas(its, pn) THEN MapGet(its, pn) ELSE 0) + quantity.n),
            pending |-> pend (+) SetToBag({Lookup(pn, quantity.n, via)}),
            result |-> "pending"]

AddSync(its, pend, partNumber, qtyArg, via) ==
  LET quantity == IF qtyArg.t = "undefined" THEN Num(1) ELSE qtyArg
      err == sanitizeInputs(partNumber, quantity)
      pn == partNumber.s
  IN  IF err # "ok" THEN [items |-> its, pending |-> pend, result |-> err]
      ELSE IF MapHas(its, pn)
        THEN [items |-> MapSet(its, pn, MapGet(its, pn) + quantity.n),
              pending |-> pend, result |-> "ok"]
        ELSE [items |-> MapSet(its, pn, quantity.n),
              pending |-> pend (+) SetToBag({Lookup(pn, quantity.n, via)}),
              result |-> "pending"]

InRange(its) == \A i \in DOMAIN its : its[i].v \in -MaxQty..MaxQty

Add(partNumber, qtyArg) ==
  /\ bom = "ready"
  /\ LET r == AddSync(items, pending, partNumber, qtyArg, "awaited")
     IN  /\ InRange(r.items)
         /\ BagCardinality(r.pending) <= MaxPending
         /\ items' = r.items
         /\ pending' = r.pending
         /\ last' = Call("add", partNumber.s, qtyArg, r.result)
  /\ UNCHANGED <<refreshing, bom, details, builds, exp>>

(***************************************************************************)
(* set(partNumber, quantity)                                               *)
(***************************************************************************)
\* SetSync that asks the query function again when it overwrites a quantity.
SetSyncAlwaysLooksUp(its, dets, pend, partNumber, quantity) ==
  LET err == sanitizeInputs(partNumber, quantity)
      pn == partNumber.s
  IN  IF err # "ok"
        THEN [items |-> its, details |-> dets, pending |-> pend, result |-> err]
      ELSE IF quantity.n <= 0
        THEN [items |-> MapDelete(its, pn), details |-> MapDelete(dets, pn),
              pending |-> pend, result |-> "ok"]
      ELSE [items |-> MapSet(its, pn, quantity.n), details |-> dets,
            pending |-> pend (+) SetToBag({Lookup(pn, quantity.n, "awaited")}),
            result |-> "pending"]

\* SetSync that writes the new quantity into the cached record as well.
SetSyncRefreshesDetails(its, dets, pend, partNumber, quantity) ==
  LET err == sanitizeInputs(partNumber, quantity)
      pn == partNumber.s
  IN  IF err # "ok"
        THEN [items |-> its, details |-> dets, pending |-> pend, result |-> err]
      ELSE IF MapHas(its, pn)
        THEN IF quantity.n <= 0
               THEN [items |-> MapDelete(its, pn), details |-> MapDelete(dets, pn),
                     pending |-> pend, result |-> "ok"]
               ELSE [items |-> MapSet(its, pn, quantity.n),
                     details |-> IF MapHas(dets, pn)
                                   THEN MapSet(dets, pn, MergeDetails(MapGet(dets, pn), pn, quantity.n))
                                   ELSE dets,
                     pending |-> pend, result |-> "ok"]
      ELSE IF quantity.n > 0
        THEN [items |-> MapSet(its, pn, quantity.n), details |-> dets,
              pending |-> pend (+) SetToBag({Lookup(pn, quantity.n, "awaited")}),
              result |-> "pending"]
      ELSE [items |-> its, details |-> dets, pending |-> pend, result |-> "ok"]

SetSync(its, dets, pend, partNumber, quantity) ==
  LET err == sanitizeInputs(partNumber, quantity)
      pn == partNumber.s
  IN  IF err # "ok"
        THEN [items |-> its, details |-> dets, pending |-> pend, result |-> err]
      ELSE IF MapHas(its, pn)
        THEN IF quantity.n <= 0
               THEN [items |-> MapDelete(its, pn), details |-> MapDelete(dets, pn),
                     pending |-> pend, result |-> "ok"]
               ELSE [items |-> MapSet(its, pn, quantity.n), details |-> dets,
                     pending |-> pend, result |-> "ok"]
      ELSE IF quantity.n > 0
        THEN [items |-> MapSet(its, pn, quantity.n), details |-> dets,
              pending |-> pend (+) SetToBag({Lookup(pn, quantity.n, "awaited")}),
              result |-> "pending"]
      ELSE [items |-> its, details |-> dets, pending |-> pend, result |-> "ok"]

Set(partNumber, quantity) ==
  /\ bom = "ready"
  /\ LET r == SetSync(items, details, pending, partNumber, quantity)
     IN  /\ InRange(r.items)
         /\ BagCardinality(r.pending) <= MaxPending
         /\ items' = r.items
         /\ details' = r.details
         /\ pending' = r.pending
         /\ last' = Call("set", partNumber.s, quantity, r.result)
  /\ UNCHANGED <<refreshing, bom, builds, exp>>

(***************************************************************************)
(* remove(partNumber, quantity = undefined)                                *)
(***************************************************************************)
\* RemoveSync with "newQty < 0" in place of "newQty <= 0".
RemoveSyncKeepsZero(its, dets, partNumber, quantity) ==
  LET pn == partNumber.s
      newQty == (IF MapHas(its, pn) THEN MapGet(its, pn) ELSE 0)
                  - (IF quantity.t = "undefined" THEN 0 ELSE quantity.n)
  IN  IF partNumber.t # "string"
        THEN [items |-> its, details |-> dets, result |-> "partNumberError"]
      ELSE IF TypeOf(quantity) # "number" /\ quantity.t # "undefined"
        THEN [items |-> its, details |-> dets, result |-> "quantityError"]
      ELSE IF quantity.t = "undefined" \/ newQty < 0
        THEN [items |-> MapDelete(its, pn), details |-> MapDelete(dets, pn),
              result |-> "ok"]
      ELSE [items |-> MapSet(its, pn, newQty), details |-> dets, result |-> "ok"]

RemoveSync(its, dets, partNumber, quantity) ==
  LET pn == partNumber.s
      newQty == (IF MapHas(its, pn) THEN MapGet(its, pn) ELSE 0)
                  - (IF quantity.t = "undefined" THEN 0 ELSE quantity.n)
  IN  IF partNumber.t # "string"
        THEN [items |-> its, details |-> dets, result |-> "partNumberError"]
      ELSE IF TypeOf(quantity) # "number" /\ quantity.t # "undefined"
        THEN [items |-> its, details |-> dets, result |-> "quantityError"]
      ELSE IF quantity.t = "undefined" \/ newQty <= 0
        THEN [items |-> MapDelete(its, pn), details |-> MapDelete(dets, pn),
              result |-> "ok"]
      ELSE [items |-> MapSet(its, pn, newQty), details |-> dets, result |-> "ok"]

Remove(partNumber, quantity) ==
  /\ bom = "ready"
  /\ LET r == RemoveSync(items, details, partNumber, quantity)
     IN  /\ InRange(r.items)
         /\ items' = r.items
         /\ details' = r.details
         /\ last' = Call("remove", partNumber.s, quantity, r.result)
  /\ UNCHANGED <<refreshing, bom, pending, builds, exp>>

(***************************************************************************)
(* The query function's promise settles: lookup i of those in flight is    *)
(* resolved, and the continuation of add/set stores the merged record; or  *)
(* it is rejected, and the continuation never runs.                        *)
(***************************************************************************)
StoreDetails(dets, l) ==
  MapSet(dets, l.partNumber, MergeDetails(QueryResult(l.partNumber), l.partNumber, l.quantity))

\* LookupResolve whose continuation stores nothing.
LookupResolveDropsRecord(l) ==
  /\ BagIn(l, pending)
  /\ pending' = pending (-) SetToBag({l})
  /\ last' = Call("resolve", l.partNumber, Undefined, l.via)
  /\ UNCHANGED <<refreshing, bom, items, details, builds, exp>>

LookupResolve(l) ==
  /\ BagIn(l, pending)
  /\ details' = StoreDetails(details, l)
  /\ pending' = pending (-) SetToBag({l})
  /\ last' = Call("resolve", l.partNumber, Undefined, l.via)
  /\ UNCHANGED <<refreshing, bom, items, builds, exp>>

\* LookupReject that takes the part number out of the quantities map again.
LookupRejectRollsBack(l) ==
  /\ BagIn(l, pending)
  /\ pending' = pending (-) SetToBag({l})
  /\ items' = MapDelete(items, l.partNumber)
  /\ last' = Call("reject", l.partNumber, Undefined, l.via)
  /\ UNCHANGED <<refreshing, bom, details, builds, exp>>

LookupReject(l) ==
  /\ BagIn(l, pending)
  /\ pending' = pending (-) SetToBag({l})
  /\ last' = Call("reject", l.partNumber, Undefined, l.via)
  /\ UNCHANGED <<refreshing, bom, items, details, builds, exp>>

(***************************************************************************)
(* buildFromTemplate(templatePath, data).  The call clears both maps and   *)
(* starts reading the template file; when the file is read and parsed,     *)
(* every entry is evaluated against the scope and given to add, whose      *)
(* promise is dropped, and the call resolves to items.                     *)
(*                                                                         *)
(* A template entry is [partNumber, quantity, included]; an expression is  *)
(* a numeric literal, a property name looked up in the scope, or absent.   *)
(* The scope is the record of the own properties of data.                  *)
(***************************************************************************)
Lit(n) == [kind |-> "lit", n |-> n, name |-> ""]
Var(name) == [kind |-> "var", n |-> 0, name |-> name]
Absent == [kind |-> "absent", n |-> 0, name |-> ""]

\* expressions.compile(e)(data)
Evaluate(e, scope) ==
  IF e.kind = "lit" THEN Num(e.n)
  ELSE IF e.name \in DOMAIN scope THEN scope[e.name] ELSE Undefined

Truthy(v) ==
  IF v.t = "number" THEN v.n # 0
  ELSE IF v.t = "boolean" THEN v.n = 1
  ELSE v.t = "string"

\* entry.included !== undefined ? compile(entry.included)(data) : true
AddEntry(entry, scope) ==
  IF entry.included.kind = "absent" THEN TRUE
  ELSE Truthy(Evaluate(entry.included, scope))

\* templateContents.forEach(entry => ...), from entry i on.
RECURSIVE ForEachEntry(_, _, _, _, _)
ForEachEntry(template, scope, i, its, pend) ==
  IF i > Len(template) THEN [items |-> its, pending |-> pend]
  ELSE IF AddEntry(template[i], scope)
    THEN LET r == AddSync(its, pend, PnStr(template[i].partNumber),
                          Evaluate(template[i].quantity, scope), "dropped")
         IN  ForEachEntry(template, scope, i + 1, r.items, r.pending)
    ELSE ForEachEntry(template, scope, i + 1, its, pend)

\* BuildFromTemplate that leaves the maps alone until the template is read.
BuildFromTemplateKeepsEntries ==
  /\ bom = "ready"
  /\ builds < MaxBuilds
  /\ builds' = builds + 1
  /\ last' = Call("buildFromTemplate", "", Undefined, "pending")
  /\ UNCHANGED <<refreshing, bom, items, details, pending, exp>>

BuildFromTemplate ==
  /\ bom = "ready"
  /\ builds < MaxBuilds
  /\ items' = <<>>
  /\ details' = <<>>
  /\ builds' = builds + 1
  /\ last' = Call("buildFromTemplate", "", Undefined, "pending")
  /\ UNCHANGED <<refreshing, bom, pending, exp>>

BuildRead(template, scope) ==
  /\ builds > 0
  /\ LET r == ForEachEntry(template, scope, 1, items, pending)
     IN  /\ InRange(r.items)
         /\ BagCardinality(r.pending) <= MaxPending
         /\ items' = r.items
         /\ pending' = r.pending
  /\ builds' = builds - 1
  /\ last' = Call("buildFromTemplate", "", Undefined, "resolved")
  /\ UNCHANGED <<refreshing, bom, details, exp>>

\* fs.readFile or JSON.parse fails.
BuildReadFail ==
  /\ builds > 0
  /\ builds' = builds - 1
  /\ last' = Call("buildFromTemplate", "", Undefined, "rejected")
  /\ UNCHANGED <<refreshing, bom, items, details, pending, exp>>

\* The scopes and templates of the model.
Scopes ==
  { [count |-> Num(2), flag |-> Bool(TRUE)],
    [count |-> StrVal, flag |-> Bool(FALSE)],
    [flag |-> Bool(TRUE)] }
EntryKinds == {<<Lit(1), Absent>>, <<Var("count"), Absent>>, <<Var("count"), Var("flag")>>}
Entries(pns, kinds) ==
  { [partNumber |-> pn, quantity |-> e[1], included |-> e[2]] : pn \in pns, e \in kinds }
Templates(entries) ==
  UNION {[1..n -> entries] : n \in 0..MaxTemplateLen}
TemplatesFoo == Templates(Entries({"foo"}, {<<Lit(1), Absent>>, <<Var("count"), Var("flag")>>}))
TemplatesParts == Templates(Entries(PartNumbers, EntryKinds))

(***************************************************************************)
(* getTotalCost() and getTotalWeight()                                     *)
(***************************************************************************)
\* a ?? b
Coalesce(a, b) == IF a.t = "undefined" THEN b ELSE a
ToNumber(v) ==
  IF v.t \in {"number", "boolean"} THEN Num(v.n) ELSE NaN
JsMul(a, b) ==
  IF ToNumber(a).t = "NaN" \/ ToNumber(b).t = "NaN" THEN NaN
  ELSE Num(ToNumber(a).n * ToNumber(b).n)
\* a + b on numbers
JsAdd(a, b) ==
  IF a.t = "NaN" \/ b.t = "NaN" THEN NaN ELSE Num(a.n + b.n)

\* this._details.get(partNumber)?.unitCost
UnitCostOf(dets, pn) == IF MapHas(dets, pn) THEN MapGet(dets, pn).unitCost ELSE Undefined
UnitWeightOf(dets, pn) == IF MapHas(dets, pn) THEN MapGet(dets, pn).unitWeight ELSE Undefined

RECURSIVE TotalCostFrom(_, _, _, _)
TotalCostFrom(its, dets, i, totalCost) ==
  IF i > Len(its) THEN totalCost
  ELSE TotalCostFrom(its, dets, i + 1,
         JsAdd(totalCost, JsMul(Coalesce(UnitCostOf(dets, its[i].k), Num(0)), Num(its[i].v))))

RECURSIVE TotalWeightFrom(_, _, _, _)
TotalWeightFrom(its, dets, i, totalWeight) ==
  IF i > Len(its) THEN totalWeight
  ELSE TotalWeightFrom(its, dets, i + 1,
         JsAdd(totalWeight, JsMul(Coalesce(UnitWeightOf(dets, its[i].k), Num(0)), Num(its[i].v))))

getTotalCost(its, dets) == TotalCostFrom(its, dets, 1, Num(0))
getTotalWeight(its, dets) == TotalWeightFrom(its, dets, 1, Num(0))

GetTotalCost ==
  /\ bom = "ready"
  /\ last' = Call("getTotalCost", "", getTotalCost(items, details), "ok")
  /\ UNCHANGED <<refreshing, bom, items, details, pending, builds, exp>>

GetTotalWeight ==
  /\ bom = "ready"
  /\ last' = Call("getTotalWeight", "", getTotalWeight(items, details), "ok")
  /\ UNCHANGED <<refreshing, bom, items, details, pending, builds, exp>>

(***************************************************************************)
(* export(filePath): data = await this.getDetails(), then the chain        *)
(*   readFile(templatePath).catch(read).then(populate).catch(create)       *)
(*     .then(writeFile).catch(write)                                       *)
(* one link at a time.  A then() is skipped by a rejected promise; a       *)
(* catch() is skipped by a fulfilled one, and rethrows a new Error whose   *)
(* cause is the error it caught.                                           *)
(***************************************************************************)
ReadMessage == "Unable to read template Microsoft Excel file."
CreateMessage == "Unable to create Microsoft Excel file. An internal error occurred."
WriteMessage == "Unable to write Microsoft Excel file to disk."

\* promise.then(f): f runs on a fulfilled promise and may throw cause.
Then(e, ok, cause) ==
  IF e.state = "fulfilled" /\ ~ok
    THEN [e EXCEPT !.state = "rejected", !.error = <<cause>>]
    ELSE e

\* promise.catch(error => { throw new Error(message, {cause: error}) })
Catch(e, message) ==
  IF e.state = "rejected"
    THEN [e EXCEPT !.error = <<message>> \o e.error]
    ELSE e

\* getDetails(): Array.from(this._details, ([partNumber, details]) => details)
getDetailsAll(dets) == [i \in DOMAIN dets |-> dets[i].v]
\* getDetails(partNumber): this._details.get(partNumber)
getDetails(dets, pn) == IF MapHas(dets, pn) THEN MapGet(dets, pn) ELSE Undefined

ExportStep(e) == last' = Call("export", "", Undefined, e.pc)

Export ==
  /\ bom = "ready"
  /\ exp.pc \in {"idle", "done"}
  /\ exp' = [pc |-> "readFile", data |-> getDetailsAll(details), rows |-> <<>>,
             state |-> "fulfilled", error |-> <<>>]
  /\ ExportStep(exp')
  /\ UNCHANGED <<refreshing, bom, items, details, pending, builds>>

ExportReadFile(ok) ==
  /\ exp.pc = "readFile"
  /\ exp' = [Then(exp, ok, "readFile failed") EXCEPT !.pc = "catchRead"]
  /\ ExportStep(exp')
  /\ UNCHANGED <<refreshing, bom, items, details, pending, builds>>

ExportCatchRead ==
  /\ exp.pc = "catchRead"
  /\ exp' = [Catch(exp, ReadMessage) EXCEPT !.pc = "populate"]
  /\ ExportStep(exp')
  /\ UNCHANGED <<refreshing, bom, items, details, pending, builds>>

\* rows.push([i + 1, data[i].quantity, data[i].partNumber, ...]) and
\* table.addRow(rows[i], i + 1) for i < this._items.size: row i of the table,
\* which has no values when data has no record i.
TableRow(data, i) ==
  IF i <= Len(data)
    THEN [item |-> i, present |-> TRUE,
          partNumber |-> data[i].partNumber, quantity |-> data[i].quantity]
    ELSE [item |-> i, present |-> FALSE, partNumber |-> "", quantity |-> 0]
TableRows(data, size) == [i \in 1..size |-> TableRow(data, i)]

ExportPopulate(ok) ==
  /\ exp.pc = "populate"
  /\ exp' = [Then(exp, ok, "populate failed") EXCEPT
               !.pc = "catchCreate",
               !.rows = IF exp.state = "fulfilled" /\ ok
                          THEN TableRows(exp.data, Len(items)) ELSE <<>>]
  /\ ExportStep(exp')
  /\ UNCHANGED <<refreshing, bom, items, details, pending, builds>>

ExportCatchCreate ==
  /\ exp.pc = "catchCreate"
  /\ exp' = [Catch(exp, CreateMessage) EXCEPT !.pc = "writeFile"]
  /\ ExportStep(exp')
  /\ UNCHANGED <<refreshing, bom, items, details, pending, builds>>

ExportWriteFile(ok) ==
  /\ exp.pc = "writeFile"
  /\ exp' = [Then(exp, ok, "writeFile failed") EXCEPT !.pc = "catchWrite"]
  /\ ExportStep(exp')
  /\ UNCHANGED <<refreshing, bom, items, details, pending, builds>>

ExportCatchWrite ==
  /\ exp.pc = "catchWrite"
  /\ exp' = [Catch(exp, WriteMessage) EXCEPT !.pc = "done"]
  /\ ExportStep(exp')
  /\ UNCHANGED <<refreshing, bom, items, details, pending, builds>>

CtorArgs == {"function", "undefined", "object"}

Next ==
  \/ \E f \in CtorArgs : Construct(f)
  \/ \E p \in PnArgs, q \in QtyArgs : Add(p, q)
  \/ \E p \in PnArgs, q \in QtyArgs : Set(p, q)
  \/ \E p \in PnArgs, q \in QtyArgs : Remove(p, q)
  \/ \E l \in BagToSet(pending) : LookupResolve(l)
  \/ \E l \in BagToSet(pending) : LookupReject(l)
  \/ BuildFromTemplate
  \/ \E t \in TemplatesFoo, s \in Scopes : BuildRead(t, s)
  \/ BuildReadFail

Spec == Init /\ [][Next]_vars

(***************************************************************************)
(* SpecParts: two part numbers, and a caller that awaits each call before  *)
(* it makes the next one (the lookups that buildFromTemplate starts are    *)
(* not awaited by it, and settle in any order).                            *)
(***************************************************************************)
Settled == pending = EmptyBag /\ builds = 0

NextParts ==
  \/ \E f \in CtorArgs : Construct(f)
  \/ Settled /\ \E p \in PnArgsParts, q \in QtyArgsParts : Add(p, q)
  \/ Settled /\ \E p \in PnArgsParts, q \in QtyArgsParts : Set(p, q)
  \/ Settled /\ \E p \in PnArgsParts, q \in QtyArgsParts : Remove(p, q)
  \/ \E l \in BagToSet(pending) : LookupResolve(l)
  \/ \E l \in BagToSet(pending) : LookupReject(l)
  \/ Settled /\ BuildFromTemplate
  \/ \E t \in TemplatesParts, s \in Scopes : BuildRead(t, s)
  \/ BuildReadFail
  \/ GetTotalCost
  \/ GetTotalWeight

SpecParts == Init /\ [][NextParts]_vars

(***************************************************************************)
(* SpecSucceed: Spec with a query function that never fails.               *)
(***************************************************************************)
NextSucceed ==
  \/ \E f \in CtorArgs : Construct(f)
  \/ \E p \in PnArgs, q \in QtyArgs : Add(p, q)
  \/ \E p \in PnArgs, q \in QtyArgs : Set(p, q)
  \/ \E p \in PnArgs, q \in QtyArgs : Remove(p, q)
  \/ \E l \in BagToSet(pending) : LookupResolve(l)
  \/ BuildFromTemplate
  \/ \E t \in TemplatesFoo, s \in Scopes : BuildRead(t, s)
  \/ BuildReadFail

SpecSucceed == Init /\ [][NextSucceed]_vars

(***************************************************************************)
(* SpecExport: export running beside calls that add one of a part and      *)
(* remove a part, on two part numbers.                                     *)
(***************************************************************************)
NextExport ==
  \/ Construct("function")
  \/ \E p \in PartNumbers : Add(PnStr(p), Num(1))
  \/ \E p \in PartNumbers : Remove(PnStr(p), Undefined)
  \/ \E l \in BagToSet(pending) : LookupResolve(l)
  \/ \E l \in BagToSet(pending) : LookupReject(l)
  \/ Export
  \/ \E ok \in BOOLEAN : ExportReadFile(ok)
  \/ ExportCatchRead
  \/ \E ok \in BOOLEAN : ExportPopulate(ok)
  \/ ExportCatchCreate
  \/ \E ok \in BOOLEAN : ExportWriteFile(ok)
  \/ ExportCatchWrite

SpecExport == Init /\ [][NextExport]_vars

(***************************************************************************)
(* SpecSerial: a caller that awaits every add and set before its next      *)
(* call, passes quantities greater than 0 only, and whose query function   *)
(* never fails.                                                            *)
(***************************************************************************)
QtyPositive == {Num(n) : n \in 1..MaxQty}

NextSerial ==
  \/ \E f \in CtorArgs : Construct(f)
  \/ pending = EmptyBag /\ \E p \in PartNumbers, q \in QtyPositive \cup {Undefined} :
                            Add(PnStr(p), q)
  \/ pending = EmptyBag /\ \E p \in PartNumbers, q \in QtyPositive : Set(PnStr(p), q)
  \/ pending = EmptyBag /\ \E p \in PartNumbers, q \in QtyPositive \cup {Undefined} :
                            Remove(PnStr(p), q)
  \/ \E l \in BagToSet(pending) : LookupResolve(l)

SpecSerial == Init /\ [][NextSerial]_vars

(***************************************************************************)
(* The legacy JavaScript class (src/unnamed/part_002).  Its _details map   *)
(* holds the promise of the record, stored by add together with the        *)
(* quantity, so that no lookup is left in flight by a call.                *)
(***************************************************************************)
\* The record the promise stored by add resolves to.
LegacyDetails(pn, qty) == MergeDetails(QueryResult(pn), pn, qty)

\* add(pn, qty = 1)
LegacyAddSync(its, dets, pn, qtyArg) ==
  LET qty == IF qtyArg.t = "undefined" THEN Num(1) ELSE qtyArg
  IN  IF pn.t # "string"
        THEN [items |-> its, details |-> dets, result |-> "partNumberError"]
      ELSE IF TypeOf(qty) # "number"
        THEN [items |-> its, details |-> dets, result |-> "quantityError"]
      ELSE IF ~MapHas(its, pn.s)
        THEN [items |-> MapSet(its, pn.s, qty.n),
              details |-> MapSet(dets, pn.s, LegacyDetails(pn.s, qty.n)),
              result |-> "ok"]
      ELSE [items |-> MapSet(its, pn.s, MapGet(its, pn.s) + qty.n),
            details |-> dets, result |-> "ok"]

LegacyAdd(pn, qty) ==
  /\ bom = "ready"
  /\ LET r == LegacyAddSync(items, details, pn, qty)
     IN  /\ InRange(r.items)
         /\ items' = r.items
         /\ details' = r.details
         /\ last' = Call("add", pn.s, qty, r.result)
  /\ UNCHANGED <<refreshing, pending, bom, builds, exp>>

\* set(pn, qty)
LegacySetSync(its, dets, pn, qty) ==
  IF pn.t # "string"
    THEN [items |-> its, details |-> dets, result |-> "partNumberError"]
  ELSE IF TypeOf(qty) # "number"
    THEN [items |-> its, details |-> dets, result |-> "quantityError"]
  ELSE LET a == IF ~MapHas(its, pn.s) /\ qty.n > 0
                  THEN LegacyAddSync(its, dets, pn, qty)
                  ELSE [items |-> its, details |-> dets, result |-> "ok"]
       IN  IF qty.n <= 0
             THEN [items |-> MapDelete(a.items, pn.s),
                   details |-> MapDelete(a.details, pn.s), result |-> "ok"]
             ELSE [items |-> MapSet(a.items, pn.s, qty.n),
                   details |-> a.details, result |-> "ok"]

LegacySet(pn, qty) ==
  /\ bom = "ready"
  /\ LET r == LegacySetSync(items, details, pn, qty)
     IN  /\ InRange(r.items)
         /\ items' = r.items
         /\ details' = r.details
         /\ last' = Call("set", pn.s, qty, r.result)
  /\ UNCHANGED <<refreshing, pending, bom, builds, exp>>

\* remove(pn, qty = undefined)
LegacyRemoveSync(its, dets, pn, qty) ==
  IF ~(pn.t = "string" /\ pn.s = "string")
    THEN [items |-> its, details |-> dets, result |-> "partNumberError"]
  ELSE IF ~MapHas(its, pn.s)
    THEN [items |-> its, details |-> dets, result |-> "ok"]
  ELSE IF qty.t = "undefined"
    THEN [items |-> MapDelete(its, pn.s), details |-> MapDelete(dets, pn.s),
          result |-> "ok"]
  ELSE IF TypeOf(qty) # "number"
    THEN [items |-> its, details |-> dets, result |-> "quantityError"]
  ELSE LET newQty == MapGet(its, pn.s) - qty.n
       IN  IF newQty <= 0
             THEN [items |-> MapDelete(its, pn.s), details |-> MapDelete(dets, pn.s),
                   result |-> "ok"]
             ELSE [items |-> MapSet(its, pn.s, newQty), details |-> dets,
                   result |-> "ok"]

LegacyRemove(pn, qty) ==
  /\ bom = "ready"
  /\ LET r == LegacyRemoveSync(items, details, pn, qty)
     IN  /\ InRange(r.items)
         /\ items' = r.items
         /\ details' = r.details
         /\ last' = Call("remove", pn.s, qty, r.result)
  /\ UNCHANGED <<refreshing, pending, bom, builds, exp>>

\* The part numbers given to the legacy class: a usual one, the word
\* "string" itself, and a value that is not a string.
PnArgsLegacy == {PnStr("foo"), PnStr("string"), PnNotString}

NextLegacy ==
  \/ \E f \in CtorArgs : Construct(f)
  \/ \E p \in PnArgsLegacy, q \in QtyArgsParts : LegacyAdd(p, q)
  \/ \E p \in PnArgsLegacy, q \in QtyArgsParts : LegacySet(p, q)
  \/ \E p \in PnArgsLegacy, q \in QtyArgsParts : LegacyRemove(p, q)

SpecLegacy == Init /\ [][NextLegacy]_vars

(***************************************************************************)
(* refresh(): one lookup is started for every entry of _items, each        *)
(* promise resolving to the fetched record merged with the part number and *)
(* the quantity of the entry; Promise.all waits for all of them, and its   *)
(* continuation stores every record under its part number.  Promise.all is *)
(* rejected by the first lookup that fails, and the continuation never     *)
(* runs.                                                                   *)
(***************************************************************************)
Refresh ==
  /\ bom = "ready"
  /\ ~refreshing.active
  /\ refreshing' =
       [active |-> TRUE,
        batch |-> [i \in DOMAIN items |->
                    [partNumber |-> items[i].k, quantity |-> items[i].v,
                     state |-> "pending"]]]
  /\ last' = Call("refresh", "", Undefined, "pending")
  /\ UNCHANGED <<bom, items, details, pending, builds, exp>>

\* RefreshLookupResolve that stores the record as soon as it is fetched.
RefreshLookupResolveApplies(i) ==
  /\ refreshing.active
  /\ i \in DOMAIN refreshing.batch
  /\ refreshing.batch[i].state = "pending"
  /\ refreshing' = [refreshing EXCEPT !.batch[i].state = "fulfilled"]
  /\ details' = MapSet(details, refreshing.batch[i].partNumber,
                        MergeDetails(QueryResult(refreshing.batch[i].partNumber),
                                     refreshing.batch[i].partNumber,
                                     refreshing.batch[i].quantity))
  /\ last' = Call("refreshLookup", refreshing.batch[i].partNumber, Undefined, "resolved")
  /\ UNCHANGED <<bom, items, pending, builds, exp>>

RefreshLookupResolve(i) ==
  /\ refreshing.active
  /\ i \in DOMAIN refreshing.batch
  /\ refreshing.batch[i].state = "pending"
  /\ refreshing' = [refreshing EXCEPT !.batch[i].state = "fulfilled"]
  /\ last' = Call("refreshLookup", refreshing.batch[i].partNumber, Undefined, "resolved")
  /\ UNCHANGED <<bom, items, details, pending, builds, exp>>

RefreshLookupReject(i) ==
  /\ refreshing.active
  /\ i \in DOMAIN refreshing.batch
  /\ refreshing.batch[i].state = "pending"
  /\ refreshing' = NoRefresh
  /\ last' = Call("refresh", refreshing.batch[i].partNumber, Undefined, "rejected")
  /\ UNCHANGED <<bom, items, details, pending, builds, exp>>

\* itemDetailsArray.forEach(details => this._details.set(details.partNumber, {...details}))
RECURSIVE ApplyBatch(_, _, _)
ApplyBatch(dets, batch, i) ==
  IF i > Len(batch) THEN dets
  ELSE ApplyBatch(MapSet(dets, batch[i].partNumber,
                         MergeDetails(QueryResult(batch[i].partNumber),
                                      batch[i].partNumber, batch[i].quantity)),
                  batch, i + 1)

\* RefreshApply that empties the details map before it stores the batch.
RefreshApplyReplaces ==
  /\ refreshing.active
  /\ \A i \in DOMAIN refreshing.batch : refreshing.batch[i].state = "fulfilled"
  /\ details' = ApplyBatch(<<>>, refreshing.batch, 1)
  /\ refreshing' = NoRefresh
  /\ last' = Call("refresh", "", Undefined, "resolved")
  /\ UNCHANGED <<bom, items, pending, builds, exp>>

RefreshApply ==
  /\ refreshing.active
  /\ \A i \in DOMAIN refreshing.batch : refreshing.batch[i].state = "fulfilled"
  /\ details' = ApplyBatch(details, refreshing.batch, 1)
  /\ refreshing' = NoRefresh
  /\ last' = Call("refresh", "", Undefined, "resolved")
  /\ UNCHANGED <<bom, items, pending, builds, exp>>

(***************************************************************************)
(* SpecRefresh: refresh() running beside add, set and remove calls on two  *)
(* part numbers.  The caller awaits each add and set, but not refresh();   *)
(* of the lookups, only those of refresh() fail.                           *)
(***************************************************************************)
NextRefresh ==
  \/ Construct("function")
  \/ pending = EmptyBag /\ \E p \in PartNumbers : Add(PnStr(p), Num(1))
  \/ pending = EmptyBag /\ \E p \in PartNumbers : Set(PnStr(p), Num(MaxQty))
  \/ pending = EmptyBag /\ \E p \in PartNumbers : Remove(PnStr(p), Undefined)
  \/ \E l \in BagToSet(pending) : LookupResolve(l)
  \/ Refresh
  \/ \E i \in 1..Cardinality(PartNumbers) : RefreshLookupResolve(i)
  \/ \E i \in 1..Cardinality(PartNumbers) : RefreshLookupReject(i)
  \/ RefreshApply

SpecRefresh == Init /\ [][NextRefresh]_vars

(***************************************************************************)
(* SpecLive: add, set and remove calls on two part numbers, none of them   *)
(* awaited, with a query function whose every promise resolves: a lookup   *)
(* in flight is not left waiting for ever.                                 *)
(***************************************************************************)
AllLookups ==
  {Lookup(pn, q, "awaited") : pn \in PartNumbers, q \in 1..MaxQty}

NextLive ==
  \/ Construct("function")
  \/ \E p \in PartNumbers : Add(PnStr(p), Num(1))
  \/ \E p \in PartNumbers : Set(PnStr(p), Num(MaxQty))
  \/ \E p \in PartNumbers : Remove(PnStr(p), Undefined)
  \/ \E l \in BagToSet(pending) : LookupResolve(l)

SpecLive ==
  Init /\ [][NextLive]_vars /\ \A l \in AllLookups : WF_vars(LookupResolve(l))

(***************************************************************************)
(* SpecReinsert: part numbers that are inserted, by add with 1 or by set   *)
(* with MaxQty, removed, and inserted again, with no call awaited and no   *)
(* quantity change on a tracked part: the stored quantity of a tracked     *)
(* part is the quantity of its latest insertion.                           *)
(***************************************************************************)
NextReinsert ==
  \/ Construct("function")
  \/ \E p \in PartNumbers : ~MapHas(items, p) /\ Add(PnStr(p), Num(1))
  \/ \E p \in PartNumbers : ~MapHas(items, p) /\ Set(PnStr(p), Num(MaxQty))
  \/ \E p \in PartNumbers : Remove(PnStr(p), Undefined)
  \/ \E l \in BagToSet(pending) : LookupResolve(l)

SpecReinsert == Init /\ [][NextReinsert]_vars

(***************************************************************************)
(* What the claims speak of.                                               *)
(***************************************************************************)
Tracked(pn) == MapHas(items, pn)
Cached(pn) == MapHas(details, pn)
\* The number of lookups in flight for pn.
LookupsFor(pend, pn) ==
  BagCardinality([l \in {x \in BagToSet(pend) : x.partNumber = pn} |-> pend[l]])
\* The quantity a call passed, 1 when add was given none.
QtyOf(call) == IF call.qty.t = "undefined" THEN 1 ELSE call.qty.n
IsNumber(v) == v.t = "number"
Performed(call, op) == call.op = op /\ call.result \in {"ok", "pending"}

(***************************************************************************)
(* C1: whenever no detail lookup is in flight, the quantities map and the  *)
(* details map hold the same set of part numbers.                          *)
(***************************************************************************)
C1_SameKeysWhenNoLookupInFlight ==
  pending = EmptyBag => MapKeys(items) = MapKeys(details)

(***************************************************************************)
(* C2: no part number is stored, in the quantities map or in a details     *)
(* record, with a quantity less than or equal to 0.                        *)
(***************************************************************************)
C2_StoredQuantitiesPositive ==
  /\ \A i \in DOMAIN items : items[i].v > 0
  /\ \A i \in DOMAIN details : details[i].v.quantity > 0

(***************************************************************************)
(* C3: add on an untracked part number stores the quantity given and       *)
(* starts exactly one lookup for it; add on a tracked part number stores   *)
(* the sum of the stored quantity and the quantity given and starts no     *)
(* lookup, whether or not the first lookup has resolved.                   *)
(***************************************************************************)
C3_AddStep ==
  Performed(last', "add") =>
    IF Tracked(last'.pn)
      THEN /\ MapGet(items', last'.pn) = MapGet(items, last'.pn) + QtyOf(last')
           /\ pending' = pending
      ELSE /\ MapGet(items', last'.pn) = QtyOf(last')
           /\ LookupsFor(pending', last'.pn) = LookupsFor(pending, last'.pn) + 1
           /\ BagCardinality(pending') = BagCardinality(pending) + 1

C3_AddSumsWithOneLookup == [][C3_AddStep]_vars

\* add(foo, 1) twice before the lookup of the first has resolved: 2 stored,
\* the one lookup of the first add in flight.
C3_Witness ==
  /\ Performed(last, "add") /\ last.qty = Num(1) /\ last.result = "ok"
  /\ Tracked("foo") /\ MapGet(items, "foo") = 2
  /\ pending = SetToBag({Lookup("foo", 1, "awaited")})
  /\ ~Cached("foo")

(***************************************************************************)
(* C4: after set(pn, q) with q <= 0, pn is in neither map, and stays in    *)
(* neither until add or set introduces it again.                           *)
(***************************************************************************)
SetToNone(call) == Performed(call, "set") /\ IsNumber(call.qty) /\ call.qty.n <= 0
Introduces(call) == call.op \in {"add", "set", "buildFromTemplate"}

C4_SetStep ==
  /\ SetToNone(last') =>
       ~MapHas(items', last'.pn) /\ ~MapHas(details', last'.pn)
  /\ SetToNone(last) /\ ~Introduces(last') =>
       ~MapHas(items', last.pn) /\ ~MapHas(details', last.pn)

C4_SetToNoneRemovesForGood == [][C4_SetStep]_vars

(***************************************************************************)
(* C5: remove(pn) without a quantity leaves pn untracked; remove(pn, q)    *)
(* with 0 <= q < current quantity leaves pn tracked with current - q;      *)
(* remove(pn, q) with q >= current quantity deletes pn from both maps.     *)
(***************************************************************************)
C5_RemoveStep ==
  Performed(last', "remove") =>
    LET pn == last'.pn
        q == last'.qty
    IN  /\ q.t = "undefined" => ~MapHas(items', pn) /\ ~MapHas(details', pn)
        /\ IsNumber(q) /\ Tracked(pn) /\ 0 <= q.n /\ q.n < MapGet(items, pn) =>
             MapHas(items', pn) /\ MapGet(items', pn) = MapGet(items, pn) - q.n
        /\ IsNumber(q) /\ Tracked(pn) /\ q.n >= MapGet(items, pn) =>
             ~MapHas(items', pn) /\ ~MapHas(details', pn)

C5_Remove == [][C5_RemoveStep]_vars

\* remove(foo, 1) has left foo tracked, with its cached record.
C5_Witness ==
  /\ Performed(last, "remove") /\ last.qty = Num(1)
  /\ Tracked("foo") /\ MapGet(items, "foo") = 1 /\ Cached("foo")

(***************************************************************************)
(* C6: remove on a part number that is not tracked changes neither map,    *)
(* whatever the quantity, so that a part number becomes tracked only by    *)
(* add, set or buildFromTemplate, with one lookup each time.               *)
(***************************************************************************)
C6_RemoveUntrackedStep ==
  /\ Performed(last', "remove") /\ ~Tracked(last'.pn) =>
       items' = items /\ details' = details
  /\ \A pn \in PartNumbers :
       ~Tracked(pn) /\ MapHas(items', pn) =>
         /\ Introduces(last')
         /\ LookupsFor(pending', pn) = LookupsFor(pending, pn) + 1

C6_RemoveUntrackedIgnored == [][C6_RemoveUntrackedStep]_vars

(***************************************************************************)
(* C7: getTotalCost() (getTotalWeight()) returns the sum over the tracked  *)
(* part numbers of the stored quantity times the unit cost (unit weight)   *)
(* of the cached record, a part with no cached record or with an absent or *)
(* non-numeric unit value counting as 0.                                   *)
(***************************************************************************)
NumberOrZero(v) == IF IsNumber(v) THEN v.n ELSE 0
CostTerm(pn) == MapGet(items, pn) * NumberOrZero(UnitCostOf(details, pn))
WeightTerm(pn) == MapGet(items, pn) * NumberOrZero(UnitWeightOf(details, pn))
RECURSIVE SumOfCosts(_)
SumOfCosts(S) ==
  IF S = {} THEN 0
  ELSE LET pn == CHOOSE x \in S : TRUE IN CostTerm(pn) + SumOfCosts(S \ {pn})
RECURSIVE SumOfWeights(_)
SumOfWeights(S) ==
  IF S = {} THEN 0
  ELSE LET pn == CHOOSE x \in S : TRUE IN WeightTerm(pn) + SumOfWeights(S \ {pn})

C7_TotalsAreSums ==
  /\ last.op = "getTotalCost" => last.qty = Num(SumOfCosts(MapKeys(items)))
  /\ last.op = "getTotalWeight" => last.qty = Num(SumOfWeights(MapKeys(items)))

(***************************************************************************)
(* C8: when export fails, the error the caller receives is the error of    *)
(* the stage that failed (read, populate or write), and the original cause *)
(* is reachable from it.                                                   *)
(***************************************************************************)
StageMessage(cause) ==
  IF cause = "readFile failed" THEN ReadMessage
  ELSE IF cause = "populate failed" THEN CreateMessage
  ELSE WriteMessage

C8_ExportErrorNamesStage ==
  exp.pc = "done" /\ exp.state = "rejected" =>
    /\ exp.error[1] = StageMessage(exp.error[Len(exp.error)])
    /\ exp.error[Len(exp.error)] \in
         {"readFile failed", "populate failed", "writeFile failed"}

(***************************************************************************)
(* C9: when buildFromTemplate resolves, the tracked part numbers are those *)
(* of the template entries whose inclusion expression is absent or truthy, *)
(* each with the value of its quantity expression, summed over the entries *)
(* that repeat a part number.                                              *)
(***************************************************************************)
IncludedEntries(template, scope) ==
  {i \in DOMAIN template : AddEntry(template[i], scope)}
RECURSIVE SumOfValues(_, _, _)
SumOfValues(template, scope, I) ==
  IF I = {} THEN 0
  ELSE LET i == CHOOSE x \in I : TRUE
       IN  Evaluate(template[i].quantity, scope).n + SumOfValues(template, scope, I \ {i})

BuildGives(template, scope, its) ==
  LET inc == IncludedEntries(template, scope)
  IN  /\ MapKeys(its) = {template[i].partNumber : i \in inc}
      /\ \A i \in inc :
           /\ IsNumber(Evaluate(template[i].quantity, scope))
           /\ MapGet(its, template[i].partNumber) =
                SumOfValues(template, scope,
                            {j \in inc : template[j].partNumber = template[i].partNumber})

C9_BuildStep ==
  last'.op = "buildFromTemplate" /\ last'.result = "resolved" /\ items = <<>> =>
    \A t \in TemplatesParts, s \in Scopes :
      BuildRead(t, s) => BuildGives(t, s, items')

C9_BuildTracksIncludedEntries == [][C9_BuildStep]_vars

(***************************************************************************)
(* C10: constructing a BOM with an argument that is not a function fails   *)
(* and yields no instance; constructing it with a function yields an       *)
(* instance whose maps are empty.                                          *)
(***************************************************************************)
C10_ConstructorNeedsFunction ==
  /\ bom = "failed" => last.op = "new" /\ last.result = "Error"
  /\ bom = "ready" /\ last.op = "new" => items = <<>> /\ details = <<>>
  /\ last.op = "new" =>
       /\ last.qty.t = "function" => bom = "ready" /\ last.result = "ok"
       /\ last.qty.t # "function" => bom = "failed"

\* new BOM({}) has thrown.
C10_Witness == bom = "failed" /\ last.op = "new" /\ last.qty.t = "object"

(***************************************************************************)
(* C11: add and set fail with the part-number error exactly when the part  *)
(* number is not a string, whatever the quantity, and with the quantity    *)
(* error exactly when the part number is a string and the quantity (1 when *)
(* add is given none) is not a number.                                     *)
(***************************************************************************)
GivenString(call) == call.pn # PnNotString.s
\* The quantity the call works with: add(partNumber, quantity = 1).
GivenQuantity(call) ==
  IF call.op = "add" /\ call.qty.t = "undefined" THEN Num(1) ELSE call.qty

C11_ValidationErrors ==
  last.op \in {"add", "set"} =>
    /\ last.result = "partNumberError" <=> ~GivenString(last)
    /\ last.result = "quantityError" <=>
         GivenString(last) /\ ~IsNumber(GivenQuantity(last))

\* set with a part number that is not a string and a quantity that is not a
\* number has failed with the part-number error.
C11_Witness ==
  /\ last.op = "set" /\ ~GivenString(last) /\ last.qty = StrVal
  /\ last.result = "partNumberError"

(***************************************************************************)
(* C12: a call to add, set or remove that fails input validation leaves    *)
(* both maps unchanged and starts no lookup.                               *)
(***************************************************************************)
FailsValidation(call) ==
  /\ call.op \in {"add", "set", "remove"}
  /\ \/ ~GivenString(call)
     \/ ~IsNumber(GivenQuantity(call)) /\ ~(call.op = "remove" /\ call.qty.t = "undefined")

C12_FailedCallStep ==
  FailsValidation(last') =>
    /\ last'.result \in {"partNumberError", "quantityError"}
    /\ items' = items /\ details' = details /\ pending' = pending

C12_FailedCallChangesNothing == [][C12_FailedCallStep]_vars

\* add with a quantity that is not a number has failed on a BOM that tracks
\* foo with its cached record.
C12_Witness ==
  /\ last.op = "add" /\ last.pn = "bar" /\ last.qty = StrVal
  /\ last.result = "quantityError"
  /\ Tracked("foo") /\ Cached("foo") /\ ~Tracked("bar")

(***************************************************************************)
(* C13: set(pn, q) with q > 0 on an untracked pn stores q and starts one   *)
(* lookup; with q > 0 on a tracked pn it overwrites the stored quantity    *)
(* and starts no lookup; with q <= 0 on an untracked pn it changes nothing *)
(* and starts no lookup.                                                   *)
(***************************************************************************)
C13_SetStep ==
  Performed(last', "set") =>
    LET pn == last'.pn
        q == last'.qty.n
    IN  /\ q > 0 /\ ~Tracked(pn) =>
             /\ MapGet(items', pn) = q
             /\ LookupsFor(pending', pn) = LookupsFor(pending, pn) + 1
             /\ BagCardinality(pending') = BagCardinality(pending) + 1
        /\ q > 0 /\ Tracked(pn) =>
             /\ MapGet(items', pn) = q
             /\ MapKeys(items') = MapKeys(items)
             /\ pending' = pending
        /\ q <= 0 /\ ~Tracked(pn) =>
             items' = items /\ details' = details /\ pending' = pending

C13_Set == [][C13_SetStep]_vars

\* set(foo, 2) has overwritten the quantity of a tracked foo whose lookup is
\* still in flight.
C13_Witness ==
  /\ Performed(last, "set") /\ last.qty = Num(2) /\ last.result = "ok"
  /\ MapGet(items, "foo") = 2
  /\ pending = SetToBag({Lookup("foo", 1, "awaited")})

(***************************************************************************)
(* C15: in the legacy class, remove(pn) on a tracked string part number    *)
(* removes the part, and remove(pn, qty) reduces its quantity by qty,      *)
(* removing it when the result is <= 0, for every string part number.      *)
(***************************************************************************)
C15_LegacyRemoveStep ==
  last'.op = "remove" /\ GivenString(last') /\ Tracked(last'.pn) =>
    LET pn == last'.pn
        q == last'.qty
    IN  /\ q.t = "undefined" => ~MapHas(items', pn)
        /\ IsNumber(q) /\ MapGet(items, pn) - q.n <= 0 => ~MapHas(items', pn)
        /\ IsNumber(q) /\ MapGet(items, pn) - q.n > 0 =>
             MapHas(items', pn) /\ MapGet(items', pn) = MapGet(items, pn) - q.n

C15_LegacyRemove == [][C15_LegacyRemoveStep]_vars

(***************************************************************************)
(* C16: every part number is ABSENT (in neither map), PENDING_DETAILS (in  *)
(* the quantities map, its lookup in flight, no details record) or PRESENT *)
(* (in both maps), and only moves ABSENT -> PENDING_DETAILS -> PRESENT ->  *)
(* ABSENT.                                                                 *)
(***************************************************************************)
StateOf(its, dets, pend, pn) ==
  IF MapHas(its, pn) /\ MapHas(dets, pn) THEN "PRESENT"
  ELSE IF MapHas(its, pn) /\ LookupsFor(pend, pn) > 0 THEN "PENDING_DETAILS"
  ELSE IF ~MapHas(its, pn) /\ ~MapHas(dets, pn) THEN "ABSENT"
  ELSE "OTHER"

Lifecycle ==
  { <<"ABSENT", "PENDING_DETAILS">>, <<"PENDING_DETAILS", "PRESENT">>,
    <<"PRESENT", "ABSENT">> }

C16_LifecycleStep ==
  \A pn \in PartNumbers :
    LET from == StateOf(items, details, pending, pn)
        to == StateOf(items', details', pending', pn)
    IN  /\ to # "OTHER"
        /\ from = to \/ <<from, to>> \in Lifecycle

C16_Lifecycle == [][C16_LifecycleStep]_vars

(***************************************************************************)
(* C17: when the lookup started by add or set fails, the call is rejected, *)
(* the part number keeps its quantity and gets no details record; later    *)
(* add and set calls on it start no new lookup, and it stays tracked       *)
(* without a record until a call removes it.                               *)
(***************************************************************************)
Unrecorded(its, dets, pend, pn) ==
  MapHas(its, pn) /\ ~MapHas(dets, pn) /\ LookupsFor(pend, pn) = 0
TakesOut(call) ==
  call.op \in {"remove", "buildFromTemplate"} \/ SetToNone(call)

C17_LookupFailureStep ==
  /\ last'.op = "reject" =>
       /\ items' = items /\ details' = details
       /\ BagCardinality(pending') = BagCardinality(pending) - 1
  /\ \A pn \in PartNumbers :
       Unrecorded(items, details, pending, pn) =>
         /\ last'.op \in {"add", "set"} /\ last'.pn = pn => pending' = pending
         /\ ~TakesOut(last') => Unrecorded(items', details', pending', pn)

C17_LookupFailure == [][C17_LookupFailureStep]_vars

\* add(foo, 1) twice, and then the lookup of the first add has failed: the
\* call is rejected, foo is stored with 2, has no record and no lookup.
C17_Witness ==
  /\ last.op = "reject" /\ last.pn = "foo" /\ last.result = "awaited"
  /\ Unrecorded(items, details, pending, "foo") /\ MapGet(items, "foo") = 2
  /\ pending = EmptyBag

(***************************************************************************)
(* C18: when the caller awaits every add and set before its next call,     *)
(* every lookup succeeds and every quantity given is greater than 0, then  *)
(* after each completed call the two maps hold the same part numbers and   *)
(* every stored quantity is greater than 0.                                *)
(***************************************************************************)
C18_SerialCallsKeepInvariants ==
  pending = EmptyBag =>
    /\ MapKeys(items) = MapKeys(details)
    /\ \A i \in DOMAIN items : items[i].v > 0

\* remove(foo, 1) has completed and left foo with 1, beside bar: both are
\* in both maps.
C18_Witness ==
  /\ Performed(last, "remove") /\ last.pn = "foo" /\ last.qty = Num(1)
  /\ pending = EmptyBag
  /\ Tracked("foo") /\ MapGet(items, "foo") = 1 /\ Cached("foo")
  /\ Tracked("bar") /\ Cached("bar")

(***************************************************************************)
(* C19: a quantity change on a tracked part number (add, set with q > 0,   *)
(* remove that leaves the part tracked) changes only that part's entry of  *)
(* the quantities map: the details map, the quantity field of the cached   *)
(* record included, stays as it was and no lookup is started.              *)
(***************************************************************************)
ChangesQuantity(call, pn) ==
  /\ call.pn = pn
  /\ \/ Performed(call, "add")
     \/ Performed(call, "set") /\ call.qty.n > 0
     \/ Performed(call, "remove")

C19_QuantityChangeStep ==
  \A pn \in PartNumbers :
    ChangesQuantity(last', pn) /\ Tracked(pn) /\ MapHas(items', pn) =>
      /\ details' = details
      /\ pending' = pending
      /\ MapKeys(items') = MapKeys(items)
      /\ \A other \in MapKeys(items) \ {pn} :
           MapGet(items', other) = MapGet(items, other)

C19_QuantityChangeLeavesDetails == [][C19_QuantityChangeStep]_vars

\* add(foo, 1) on a tracked foo: 2 stored, the cached record still says 1,
\* and bar is as it was.
C19_Witness ==
  /\ Performed(last, "add") /\ last.pn = "foo" /\ last.result = "ok"
  /\ MapGet(items, "foo") = 2
  /\ Cached("foo") /\ MapGet(details, "foo").quantity = 1
  /\ Tracked("bar") /\ Cached("bar")

(***************************************************************************)
(* C20: for every tracked part number with a cached record, the quantity   *)
(* of the record that getDetails returns equals the quantity stored in the *)
(* quantities map.                                                         *)
(***************************************************************************)
C20_RecordQuantityIsCurrent ==
  \A pn \in PartNumbers :
    Tracked(pn) /\ Cached(pn) =>
      getDetails(details, pn).quantity = MapGet(items, pn)

(***************************************************************************)
(* C21: the table export writes has exactly one row for each part number   *)
(* of the quantities map, numbered 1..length, every tracked part once and  *)
(* no row for an untracked part.                                           *)
(***************************************************************************)
WritesTable == exp.pc = "populate" /\ exp'.pc = "catchCreate" /\ exp'.state = "fulfilled"

C21_ExportStep ==
  WritesTable =>
    /\ Len(exp'.rows) = Len(items)
    /\ \A i \in DOMAIN exp'.rows : exp'.rows[i].present /\ exp'.rows[i].item = i
    /\ {exp'.rows[i].partNumber : i \in DOMAIN exp'.rows} = MapKeys(items)

C21_ExportOneRowPerPart == [][C21_ExportStep]_vars

(***************************************************************************)
(* C22: when a lookup issued by refresh() fails, refresh() is rejected and *)
(* no record of the batch is applied: refresh() changes the details map in *)
(* no step but the one in which all its lookups have resolved.             *)
(***************************************************************************)
AllFulfilled(r) == \A i \in DOMAIN r.batch : r.batch[i].state = "fulfilled"

C22_RefreshStep ==
  /\ last'.op = "refresh" /\ last'.result = "rejected" =>
       refreshing.active /\ ~refreshing'.active /\ details' = details
  /\ last'.op = "refreshLookup" => details' = details
  /\ last'.op = "refresh" /\ last'.result = "resolved" =>
       refreshing.active /\ AllFulfilled(refreshing)

C22_RefreshAllOrNothing == [][C22_RefreshStep]_vars

\* refresh() has been rejected by the lookup of bar; the record of foo still
\* carries 1 where the quantities map says MaxQty.
C22_Witness ==
  /\ last.op = "refresh" /\ last.result = "rejected" /\ last.pn = "bar"
  /\ Tracked("foo") /\ Cached("foo")
  /\ MapGet(items, "foo") = MaxQty /\ MapGet(details, "foo").quantity = 1

(***************************************************************************)
(* C23: when refresh() resolves, the details map holds the freshly fetched *)
(* record, merged with the part number and its quantity, of each part      *)
(* number tracked when refresh() was called, and no record of any other    *)
(* part number; it is not modified before all lookups have resolved.       *)
(* Stated for a refresh() called on a BOM that tracks a part.              *)
(***************************************************************************)
C23_RefreshStep ==
  /\ last'.op = "refresh" /\ last'.result = "resolved" /\ refreshing.batch # <<>> =>
       /\ MapKeys(details') =
            {refreshing.batch[i].partNumber : i \in DOMAIN refreshing.batch}
       /\ \A i \in DOMAIN refreshing.batch :
            MapGet(details', refreshing.batch[i].partNumber) =
              [QueryResult(refreshing.batch[i].partNumber) EXCEPT
                 !.partNumber = refreshing.batch[i].partNumber,
                 !.quantity = refreshing.batch[i].quantity]
  /\ last'.op = "refreshLookup" => details' = details

C23_RefreshReplacesDetails == [][C23_RefreshStep]_vars

(***************************************************************************)
(* C23, as amended: refresh() starts one lookup for each part number       *)
(* tracked at the call; when it resolves, the details map holds for each   *)
(* of them the freshly fetched record merged with the part number and the  *)
(* quantity it had at the call, and the records of every other part number *)
(* are left as they were; refresh() does not modify the details map before *)
(* all its lookups have resolved.                                          *)
(***************************************************************************)
BatchParts(r) == {r.batch[i].partNumber : i \in DOMAIN r.batch}

C23_RefreshUpdatesStep ==
  /\ last'.op = "refresh" /\ last'.result = "pending" =>
       /\ Len(refreshing'.batch) = Len(items)
       /\ \A i \in DOMAIN items :
            /\ refreshing'.batch[i].partNumber = items[i].k
            /\ refreshing'.batch[i].quantity = items[i].v
       /\ details' = details
  /\ last'.op = "refresh" /\ last'.result = "resolved" =>
       /\ \A i \in DOMAIN refreshing.batch :
            /\ MapHas(details', refreshing.batch[i].partNumber)
            /\ MapGet(details', refreshing.batch[i].partNumber) =
                 [QueryResult(refreshing.batch[i].partNumber) EXCEPT
                    !.partNumber = refreshing.batch[i].partNumber,
                    !.quantity = refreshing.batch[i].quantity]
       /\ \A pn \in PartNumbers \ BatchParts(refreshing) :
            /\ MapHas(details', pn) <=> MapHas(details, pn)
            /\ MapHas(details, pn) => MapGet(details', pn) = MapGet(details, pn)
  /\ last'.op = "refreshLookup" => details' = details

C23_RefreshUpdatesTrackedParts == [][C23_RefreshUpdatesStep]_vars

\* refresh() has resolved: the record of foo carries MaxQty as the quantities
\* map does, and the record of bar is there as well.
C23_Witness ==
  /\ last.op = "refresh" /\ last.result = "resolved"
  /\ Tracked("foo") /\ MapGet(items, "foo") = MaxQty
  /\ Cached("foo") /\ MapGet(details, "foo").quantity = MaxQty
  /\ Cached("bar")

(***************************************************************************)
(* C24: buildFromTemplate swallows no failure: when an add it issues for   *)
(* an included entry fails, because the quantity is not a number or        *)
(* because the lookup is rejected, its promise is rejected.                *)
(***************************************************************************)
AddsAllSucceed(template, scope) ==
  \A i \in IncludedEntries(template, scope) :
    LET v == Evaluate(template[i].quantity, scope)
    IN  v.t = "undefined" \/ TypeOf(v) = "number"

C24_BuildStep ==
  /\ last'.op = "buildFromTemplate" /\ last'.result = "resolved" =>
       \A t \in TemplatesParts, s \in Scopes :
         BuildRead(t, s) => AddsAllSucceed(t, s)
  /\ last'.op = "reject" => last'.result # "dropped"

C24_BuildSwallowsNoFailure == [][C24_BuildStep]_vars

(***************************************************************************)
(* C25: add never removes an entry and applies any numeric quantity as     *)
(* given: with q <= 0 on an untracked part it stores q and starts the      *)
(* lookup, on a tracked part it stores old + q even when that is <= 0, and *)
(* the part is tracked afterwards in both cases.                           *)
(***************************************************************************)
C25_AddStep ==
  Performed(last', "add") =>
    LET pn == last'.pn
        q == QtyOf(last')
    IN  /\ MapHas(items', pn)
        /\ MapKeys(items') = MapKeys(items) \cup {pn}
        /\ details' = details
        /\ ~Tracked(pn) =>
             /\ MapGet(items', pn) = q
             /\ LookupsFor(pending', pn) = LookupsFor(pending, pn) + 1
        /\ Tracked(pn) => MapGet(items', pn) = MapGet(items, pn) + q

C25_AddNeverRemoves == [][C25_AddStep]_vars

\* add(foo, -1) on a tracked foo has left it tracked with 0.
C25_Witness ==
  /\ Performed(last, "add") /\ last.pn = "foo" /\ last.qty = Num(-1)
  /\ last.result = "ok"
  /\ Tracked("foo") /\ MapGet(items, "foo") = 0

(***************************************************************************)
(* C26: the details record of a newly inserted part number is stored only  *)
(* by the resolution of its lookup, and the promise of add or set resolves *)
(* with the record in place; every tracked part number with a lookup in    *)
(* flight eventually has a details record, unless it is removed.           *)
(***************************************************************************)
C26_StoreStep ==
  /\ \A pn \in PartNumbers :
       ~MapHas(details, pn) /\ MapHas(details', pn) =>
         /\ last'.op = "resolve" /\ last'.pn = pn
         /\ LookupsFor(pending', pn) = LookupsFor(pending, pn) - 1
  /\ last'.op = "resolve" => MapHas(details', last'.pn)

C26_DetailsAfterLookup ==
  /\ [][C26_StoreStep]_vars
  /\ \A pn \in PartNumbers :
       (Tracked(pn) /\ LookupsFor(pending, pn) > 0) ~> (Cached(pn) \/ ~Tracked(pn))

\* The lookup of foo has resolved and its record is stored.
C26_Witness ==
  /\ last.op = "resolve" /\ last.pn = "foo" /\ last.result = "awaited"
  /\ Tracked("foo") /\ Cached("foo") /\ pending = EmptyBag

(***************************************************************************)
(* C27: when the promise of buildFromTemplate resolves, every lookup it    *)
(* started has completed, and every tracked part number has its details    *)
(* record.                                                                 *)
(***************************************************************************)
C27_BuildStep ==
  last'.op = "buildFromTemplate" /\ last'.result = "resolved" =>
    /\ \A l \in BagToSet(pending') : l.via # "dropped"
    /\ MapKeys(details') = MapKeys(items')

C27_BuildResolvesAfterLookups == [][C27_BuildStep]_vars

(***************************************************************************)
(* C28: buildFromTemplate empties both maps before it reads the template;  *)
(* when reading or parsing fails, its promise is rejected, no lookup is    *)
(* started and the BOM is left empty.                                      *)
(***************************************************************************)
C28_BuildStep ==
  /\ last'.op = "buildFromTemplate" /\ last'.result = "pending" =>
       items' = <<>> /\ details' = <<>> /\ pending' = pending
  /\ last'.op = "buildFromTemplate" /\ last'.result = "rejected" =>
       /\ items' = items /\ details' = details /\ pending' = pending
       /\ items' = <<>> /\ details' = <<>>

C28_BuildFailureLeavesEmpty == [][C28_BuildStep]_vars

\* The template could not be read: the call is rejected and the BOM is empty.
C28_Witness ==
  /\ last.op = "buildFromTemplate" /\ last.result = "rejected"
  /\ items = <<>> /\ details = <<>> /\ pending = EmptyBag /\ builds = 0

(***************************************************************************)
(* C29: when a part number is removed and inserted again while the lookup  *)
(* of its earlier insertion is in flight, then once its lookups have       *)
(* resolved the cached record carries the quantity of the latest           *)
(* insertion, in whatever order they resolved.                             *)
(***************************************************************************)
C29_RecordOfLatestInsertion ==
  \A pn \in PartNumbers :
    Tracked(pn) /\ LookupsFor(pending, pn) = 0 =>
      Cached(pn) /\ MapGet(details, pn).quantity = MapGet(items, pn)

(***************************************************************************)
(* C30: every record of the details map carries as its partNumber field    *)
(* the key it is stored under, whatever the query function returned, after *)
(* add, set and refresh alike.                                             *)
(***************************************************************************)
C30_RecordCarriesItsKey ==
  \A i \in DOMAIN details : details[i].v.partNumber = details[i].k

\* refresh() has stored the record of bar, for which the query function
\* returns a record with another partNumber.
C30_Witness ==
  /\ last.op = "refresh" /\ last.result = "resolved"
  /\ QueryResult("bar").partNumber # "bar"
  /\ Cached("bar") /\ MapGet(details, "bar").partNumber = "bar"
  /\ Tracked("bar") /\ MapGet(details, "bar").quantity = MapGet(items, "bar")
====
